---- MODULE Spec2Model ----
(***************************************************************************)
(* Model of tools/rename_shapes_descriptive.py: the SVGAnalyzer that       *)
(* derives a descriptive kebab-case file name from an SVG's comment,       *)
(* category and element counts, and the SVGRenamer that walks the          *)
(* brand/category catalog, resolves name collisions and renames files.     *)
(*                                                                         *)
(* Python str values are TLA+ strings; a character is a string of length   *)
(* 1.  An Optional value is a sequence of length 0 (None) or 1.            *)
(***************************************************************************)
EXTENDS Integers, Sequences, FiniteSets, TLC

VARIABLES
    \* ---- the SVGAnalyzer most recently constructed
    content,            \* what is stored at self.filepath
    category,           \* self.category
    comment,            \* self.comment (Optional str)
    root,               \* self.root (Optional sequence of elements)
    tokens,             \* result of analyze_shape_characteristics
    descriptive_name,   \* result of generate_descriptive_name
    apc,                \* position of the analyzer: "none", "parsed", "analyzed", "named"
    \* ---- the catalog on disk and the SVGRenamer of the current run
    fs,                 \* path -> content, a path is <<brand, category, file name>>
    pc,                 \* position of main()
    run,                \* number of the current run of main()
    argv,               \* sys.argv of the current run
    dry_run,            \* main's dry_run
    encoding,           \* sys.stdout.encoding of the current run
    svgs,               \* result of find_all_svgs
    idx,                \* index of the loop over svgs / over rename_map
    rename_map,         \* self.rename_map
    collision_counter,  \* self.collision_counter
    renamed_count,      \* execute_rename's renamed_count
    skipped_count,      \* execute_rename's skipped_count
    \* ---- what earlier steps and runs left behind (read by the properties only)
    fs0,                \* the catalog when the current run started
    outcomes,           \* the line execute_rename printed for each record so far
    unlinks,            \* files another process removed during the current run
    faults,             \* faults of the environment so far: failures of os.rename,
                        \* removals by another process, runs on an ASCII-only console
    prev                \* the previous run, once it has finished (Optional)

avars == <<content, category, comment, root, tokens, descriptive_name, apc>>
rvars == <<fs, pc, run, argv, dry_run, encoding, svgs, idx, rename_map, collision_counter,
           renamed_count, skipped_count, fs0, outcomes, unlinks, faults, prev>>
vars == <<content, category, comment, root, tokens, descriptive_name, apc,
          fs, pc, run, argv, dry_run, encoding, svgs, idx, rename_map,
          collision_counter, renamed_count, skipped_count, fs0, outcomes, unlinks, faults, prev>>

(***************************************************************************)
(* Bounds of the model                                                     *)
(***************************************************************************)
MaxCircle == 4      \* circles in a sample document
MaxPolygon == 4     \* polygons in a sample document
MaxOther == 2       \* elements of one further kind in a sample document
MaxNoFill == 1      \* leading shape elements that carry fill="none"
MaxFiles == 3       \* files in a sample catalog
MaxRuns == 2        \* runs of main() in one behaviour
MaxFaults == 1      \* faults of the environment in one behaviour

(***************************************************************************)
(* Python str operations                                                   *)
(***************************************************************************)
Char(s, i) == SubSeq(s, i, i)

\* sub in s
Contains(s, sub) ==
    \E i \in 1..(Len(s) - Len(sub) + 1) : SubSeq(s, i, i + Len(sub) - 1) = sub

AsciiUpper == "ABCDEFGHIJKLMNOPQRSTUVWXYZ"
AsciiLower == "abcdefghijklmnopqrstuvwxyz"

UpperChars == {Char(AsciiUpper, i) : i \in 1..Len(AsciiUpper)}

LowerOf ==
    [c \in UpperChars |->
        Char(AsciiLower, CHOOSE i \in 1..Len(AsciiUpper) : Char(AsciiUpper, i) = c)]

LowerChar(c) == IF c \in UpperChars THEN LowerOf[c] ELSE c

RECURSIVE LowerFrom(_, _)
LowerFrom(s, i) ==
    IF i > Len(s) THEN "" ELSE LowerChar(Char(s, i)) \o LowerFrom(s, i + 1)

\* s.lower()
Lower(s) == LowerFrom(s, 1)

\* s.rstrip(c)
RECURSIVE RStrip(_, _)
RStrip(s, c) ==
    IF Len(s) > 0 /\ Char(s, Len(s)) = c THEN RStrip(SubSeq(s, 1, Len(s) - 1), c) ELSE s

RECURSIVE LStrip(_, _)
LStrip(s, c) ==
    IF Len(s) > 0 /\ Char(s, 1) = c THEN LStrip(SubSeq(s, 2, Len(s)), c) ELSE s

\* s.strip(c)
Strip(s, c) == RStrip(LStrip(s, c), c)

\* sep.join(parts)
RECURSIVE Join(_, _)
Join(parts, sep) ==
    IF Len(parts) = 0 THEN ""
    ELSE IF Len(parts) = 1 THEN parts[1]
    ELSE parts[1] \o sep \o Join(Tail(parts), sep)

\* The characters of [a-z0-9-]
KebabChars ==
    {"a", "b", "c", "d", "e", "f", "g", "h", "i", "j", "k", "l", "m", "n", "o", "p",
     "q", "r", "s", "t", "u", "v", "w", "x", "y", "z",
     "0", "1", "2", "3", "4", "5", "6", "7", "8", "9", "-"}

\* re.sub(r'[^a-z0-9-]', '-', s)
RECURSIVE ReplaceNonKebab(_, _)
ReplaceNonKebab(s, i) ==
    IF i > Len(s) THEN ""
    ELSE (IF Char(s, i) \in KebabChars THEN Char(s, i) ELSE "-") \o ReplaceNonKebab(s, i + 1)

\* re.sub(r'-+', '-', s)
RECURSIVE CollapseHyphens(_, _)
CollapseHyphens(s, i) ==
    IF i > Len(s) THEN ""
    ELSE IF Char(s, i) = "-" /\ i > 1 /\ Char(s, i - 1) = "-" THEN CollapseHyphens(s, i + 1)
    ELSE Char(s, i) \o CollapseHyphens(s, i + 1)

\* tag.split('}')[-1]
RECURSIVE LocalNameFrom(_, _)
LocalNameFrom(tag, i) ==
    IF i = 0 THEN tag
    ELSE IF Char(tag, i) = "}" THEN SubSeq(tag, i + 1, Len(tag))
    ELSE LocalNameFrom(tag, i - 1)

LocalName(tag) == LocalNameFrom(tag, Len(tag))

\* str(n) for the small n the model reaches
Digits == "0123456789"
RECURSIVE Str(_)
Str(n) == IF n < 10 THEN Char(Digits, n + 1) ELSE Str(n \div 10) \o Char(Digits, (n % 10) + 1)

\* x in list
InSeq(x, s) == \E i \in 1..Len(s) : s[i] = x

(***************************************************************************)
(* SVGAnalyzer                                                             *)
(***************************************************************************)
\* bool(self.comment): neither None nor ''
Truthy(opt) == opt # <<>> /\ opt[1] # ""

\* Lines 52-54: the tag of every element of the tree, its namespace removed
LocalTags(r) == IF r = <<>> THEN <<>> ELSE [i \in 1..Len(r[1]) |-> LocalName(r[1][i].tag)]

\* counts.get(kind, 0), counts being count_elements(); an absent root counts nothing
CountOf(tags, kind) == Cardinality({i \in 1..Len(tags) : tags[i] = kind})

count_elements(r, kind) == CountOf(LocalTags(r), kind)

\* 'word' in self.comment.lower() if self.comment else False
CommentHas(c, word) == Truthy(c) /\ Contains(Lower(c[1]), word)

descriptors ==
    <<"bold", "simple", "classic", "minimal", "organic", "geometric",
      "rounded", "angular", "layered", "stacked", "centered",
      "outline", "filled", "thick", "thin", "wavy", "straight",
      "curved", "pointed", "soft", "sharp", "horizontal", "vertical",
      "diagonal", "scattered", "tight", "wide", "tall", "chunky">>

\* Lines 69-76: at most one multiplicity word of the comment
MultiplicityTokens(cl) ==
    IF Contains(cl, "double") \/ Contains(cl, "dual") THEN <<"double">>
    ELSE IF Contains(cl, "triple") \/ Contains(cl, "three") THEN <<"triple">>
    ELSE IF Contains(cl, "four") \/ Contains(cl, "quad") THEN <<"quad">>
    ELSE IF Contains(cl, "cluster") \/ Contains(cl, "multi") THEN <<"cluster">>
    ELSE <<>>

\* Lines 64-87: the tokens the comment gives
CommentTokens(c) ==
    IF ~Truthy(c) THEN <<>>
    ELSE LET cl == Lower(c[1])
         IN  MultiplicityTokens(cl) \o SelectSeq(descriptors, LAMBDA d : Contains(cl, d))

CountCategories == {"hearts", "stars", "sparkles"}

\* Lines 98-107: the token the circle and polygon counts add, given the tokens so far
CategoryCountTokensNoClusterCheck(cat, toks, circle_count, polygon_count) ==
    IF cat \notin CountCategories THEN <<>>
    ELSE IF circle_count > 3 /\ polygon_count > 0
         THEN (IF ~InSeq("cluster", toks) THEN <<"cluster">> ELSE <<>>)
    ELSE IF circle_count >= 3
         THEN (IF ~InSeq("triple", toks) THEN <<"triple">> ELSE <<>>)
    ELSE IF circle_count = 2
         THEN (IF ~InSeq("double", toks) THEN <<"double">> ELSE <<>>)
    ELSE <<>>

CategoryCountTokens(cat, toks, circle_count, polygon_count) ==
    IF cat \notin CountCategories THEN <<>>
    ELSE IF circle_count > 3 /\ polygon_count > 0
         THEN (IF ~InSeq("cluster", toks) THEN <<"cluster">> ELSE <<>>)
    ELSE IF circle_count >= 3
         THEN (IF ~InSeq("triple", toks) /\ ~InSeq("cluster", toks)
               THEN <<"triple">> ELSE <<>>)
    ELSE IF circle_count = 2
         THEN (IF ~InSeq("double", toks) THEN <<"double">> ELSE <<>>)
    ELSE <<>>

\* Line 111: elements whose fill attribute is 'none'
fill_none_count(r) == Cardinality({i \in 1..Len(r[1]) : r[1][i].fill = <<"none">>})

\* Lines 110-115
OutlineTokens(r, toks, total_shapes) ==
    IF r # <<>> /\ 2 * fill_none_count(r) > total_shapes /\ total_shapes > 0
          /\ ~InSeq("outline", toks)
    THEN <<"outline">> ELSE <<>>

Opt(b, tok) == IF b THEN <<tok>> ELSE <<>>

\* Lines 118-217: the branch of the category, given the tokens so far
CategoryTokens(cat, c, toks, polygon_count, circle_count, path_count, rect_count, ellipse_count, line_count) ==
    CASE cat = "mountains" ->
            IF polygon_count >= 4 THEN <<"range">>
            ELSE IF polygon_count >= 3 THEN Opt(~InSeq("layered", toks), "layered")
            ELSE IF polygon_count = 2 THEN Opt(~InSeq("double", toks), "dual")
            ELSE IF polygon_count = 1 THEN <<"single">>
            ELSE <<>>
      [] cat = "waves" ->
            LET t1 == IF path_count >= 3 THEN <<"triple">>
                      ELSE IF path_count = 2 THEN <<"double">> ELSE <<>>
            IN  t1 \o Opt(InSeq("outline", toks \o t1), "line")
      [] cat = "compasses" ->
            Opt(circle_count >= 2, "ringed")
            \o (IF polygon_count >= 8 THEN <<"eight-point">>
                ELSE IF polygon_count >= 4 THEN <<"four-point">> ELSE <<>>)
      [] cat = "dividers" ->
            (IF circle_count >= 3 THEN <<"dotted">>
             ELSE IF circle_count >= 1 THEN <<"centered">> ELSE <<>>)
            \o Opt(polygon_count > 0, "decorated")
      [] cat = "badges" \/ cat = "shields" ->
            IF circle_count > 10 THEN <<"scalloped">>
            ELSE IF polygon_count >= 1 THEN
                (IF CommentHas(c, "hex") THEN <<"hexagon">>
                 ELSE IF CommentHas(c, "octagon") THEN <<"octagon">>
                 ELSE IF CommentHas(c, "diamond") THEN <<"diamond">>
                 ELSE IF CommentHas(c, "star") THEN <<"star">>
                 ELSE <<>>)
            ELSE <<>>
      [] cat = "frames" ->
            Opt(rect_count >= 2 \/ circle_count >= 2, "double")
            \o (IF polygon_count >= 6 THEN <<"hexagon">>
                ELSE IF polygon_count >= 8 THEN <<"octagon">> ELSE <<>>)
            \o Opt(CommentHas(c, "corner"), "corner")
      [] cat = "blobs" ->
            (IF ellipse_count >= 1 \/ circle_count >= 1
             THEN (IF rect_count >= 1 THEN <<"rounded">> ELSE <<"oval">>)
             ELSE <<>>)
            \o Opt(CommentHas(c, "asymmetric"), "asymmetric")
      [] cat = "lightning" ->
            Opt(polygon_count >= 2, "double")
            \o (IF CommentHas(c, "zigzag") THEN <<"zigzag">>
                ELSE IF CommentHas(c, "compact") THEN <<"compact">> ELSE <<>>)
      [] cat = "speech_bubbles" ->
            (IF circle_count >= 3 THEN <<"thought">>
             ELSE IF ellipse_count >= 3 THEN <<"cloud">> ELSE <<>>)
            \o Opt(CommentHas(c, "tail"), "tail")
      [] cat = "accents" ->
            Opt(line_count >= 2, "double")
            \o (IF circle_count >= 4 THEN <<"dotted">>
                ELSE IF circle_count = 1 THEN <<"circle">> ELSE <<>>)
            \o Opt(rect_count >= 2, "square")
      [] cat = "sticker_outlines" ->
            IF polygon_count >= 1 THEN
                (IF CommentHas(c, "hex") THEN <<"hexagon">>
                 ELSE IF CommentHas(c, "star") THEN <<"star">> ELSE <<>>)
            ELSE <<>>
      [] OTHER -> <<>>

\* analyze_shape_characteristics
analyze_shape_characteristics(cat, c, r) ==
    LET tags == LocalTags(r)
        polygon_count == CountOf(tags, "polygon")
        circle_count  == CountOf(tags, "circle")
        path_count    == CountOf(tags, "path")
        rect_count    == CountOf(tags, "rect")
        ellipse_count == CountOf(tags, "ellipse")
        line_count    == CountOf(tags, "line")
        t1 == CommentTokens(c)
        t2 == t1 \o CategoryCountTokens(cat, t1, circle_count, polygon_count)
        total_shapes == polygon_count + circle_count + path_count + rect_count
                        + ellipse_count
        t3 == t2 \o OutlineTokens(r, t2, total_shapes)
    IN  t3 \o CategoryTokens(cat, c, t3, polygon_count, circle_count, path_count,
                             rect_count, ellipse_count, line_count)

\* Lines 226-245: category_singular.get(category, category.rstrip('s'))
Base(cat) ==
    CASE cat = "hearts" -> "heart"
      [] cat = "stars" -> "star"
      [] cat = "sparkles" -> "sparkle"
      [] cat = "blobs" -> "blob"
      [] cat = "mountains" -> "mountain"
      [] cat = "waves" -> "wave"
      [] cat = "compasses" -> "compass"
      [] cat = "badges" -> "badge"
      [] cat = "shields" -> "shield"
      [] cat = "frames" -> "frame"
      [] cat = "dividers" -> "divider"
      [] cat = "lightning" -> "lightning"
      [] cat = "speech_bubbles" -> "bubble"
      [] cat = "accents" -> "accent"
      [] cat = "sticker_outlines" -> "sticker"
      [] cat = "sun_moon" -> "celestial"
      [] OTHER -> RStrip(cat, "s")

\* Lines 250-255: remove duplicates while preserving order
RECURSIVE UniqueFrom(_, _, _)
UniqueFrom(toks, i, unique_tokens) ==
    IF i > Len(toks) THEN unique_tokens
    ELSE IF InSeq(toks[i], unique_tokens) THEN UniqueFrom(toks, i + 1, unique_tokens)
    ELSE UniqueFrom(toks, i + 1, Append(unique_tokens, toks[i]))

UniqueTokensKeepAll(toks) == toks

UniqueTokens(toks) == UniqueFrom(toks, 1, <<>>)

\* Lines 258-259: unique_tokens[:3]
LimitTokens(unique_tokens) ==
    IF Len(unique_tokens) > 3 THEN SubSeq(unique_tokens, 1, 3) ELSE unique_tokens

\* Lines 248-263
NameParts(toks, base) ==
    IF toks # <<>> THEN LimitTokens(UniqueTokens(toks)) \o <<base>> ELSE <<base>>

\* Lines 266-272
Sanitize(name_parts) ==
    LET joined == Join(name_parts, "-")
        lowered == Lower(joined)
        replaced == ReplaceNonKebab(lowered, 1)
        collapsed == CollapseHyphens(replaced, 1)
    IN  Strip(collapsed, "-") \o ".svg"

\* generate_descriptive_name, given the tokens of analyze_shape_characteristics
generate_descriptive_name(cat, toks) == Sanitize(NameParts(toks, Base(cat)))

(***************************************************************************)
(* Sample inputs of the analyzer                                           *)
(***************************************************************************)
SvgNS == "{http://www.w3.org/2000/svg}"

Element(kind, nofill) == [tag |-> SvgNS \o kind, fill |-> IF nofill THEN <<"none">> ELSE <<>>]

\* A document: the root svg element, then nc circles, np polygons and no elements
\* of one other kind, the first nf of these shapes drawn with fill="none"
MakeDoc(nc, np, other, no, nf) ==
    <<Element("svg", FALSE)>>
    \o [i \in 1..(nc + np + no) |->
            Element(IF i <= nc THEN "circle" ELSE IF i <= nc + np THEN "polygon" ELSE other,
                    i <= nf)]

OtherKinds == {"path", "rect", "ellipse", "line"}

SampleDocs ==
    {MakeDoc(nc, np, "path", 0, nf) :
        nc \in 0..MaxCircle, np \in 0..MaxPolygon, nf \in 0..MaxNoFill}
    \cup
    {MakeDoc(d[1], 0, d[2], d[3], 0) : d \in (0..MaxCircle) \X OtherKinds \X (1..MaxOther)}

\* The text between <!-- and --> of the first comment, if the file has one
SampleComments ==
    {<<>>,
     <<" ">>,
     <<" Double heart cluster, bold outline ">>,
     <<"Triple star">>,
     <<"cluster">>,
     <<"Dual">>,
     <<"three dual bold soft wide">>,
     <<"Quad hexagon corner tail">>,
     <<"Multi zigzag, asymmetric thin layered">>}

KnownCategories ==
    {"hearts", "stars", "sparkles", "blobs", "mountains", "waves", "compasses",
     "badges", "shields", "frames", "dividers", "lightning", "speech_bubbles",
     "accents", "sticker_outlines", "sun_moon"}

SampleCategories == KnownCategories \cup {"s", "v2", "arrows", "My_Icons"}

\* File contents: a well-formed document, or text that ET.parse rejects
SampleContents ==
    [comment : SampleComments, wellformed : {TRUE}, elements : SampleDocs]
    \cup
    [comment : SampleComments, wellformed : {FALSE},
     elements : {MakeDoc(MaxCircle, 1, "path", 0, 0)}]

\* _parse: the comment the regular expression <!--\s*(.+?)\s*--> finds, stripped
ParseComment(c) ==
    IF c.comment = <<>> \/ c.comment[1] = "" THEN <<>> ELSE <<Strip(c.comment[1], " ")>>

\* _parse: the root of the parsed tree, None after ET.ParseError
ParseRoot(c) == IF c.wellformed THEN <<c.elements>> ELSE <<>>

(***************************************************************************)
(* The analyzer alone: any sample input, then its two public methods       *)
(***************************************************************************)
NoRenamer ==
    /\ fs = <<>>
    /\ pc = "none"
    /\ run = 0
    /\ argv = <<>>
    /\ dry_run = TRUE
    /\ encoding = "utf-8"
    /\ svgs = <<>>
    /\ idx = 0
    /\ rename_map = <<>>
    /\ collision_counter = <<>>
    /\ renamed_count = 0
    /\ skipped_count = 0
    /\ fs0 = <<>>
    /\ outcomes = <<>>
    /\ unlinks = 0
    /\ faults = 0
    /\ prev = <<>>

\* SVGAnalyzer(filepath, category): __init__ and _parse
InitAnalyzer ==
    /\ content \in SampleContents
    /\ category \in SampleCategories
    /\ comment = ParseComment(content)
    /\ root = ParseRoot(content)
    /\ tokens = <<>>
    /\ descriptive_name = ""
    /\ apc = "parsed"
    /\ NoRenamer

\* A call of analyze_shape_characteristics
Analyze ==
    /\ apc = "parsed"
    /\ tokens' = analyze_shape_characteristics(category, comment, root)
    /\ apc' = "analyzed"
    /\ UNCHANGED <<content, category, comment, root, descriptive_name>>
    /\ UNCHANGED rvars

\* A call of generate_descriptive_name, which analyzes first
GenerateName ==
    /\ apc \in {"parsed", "analyzed"}
    /\ LET toks == analyze_shape_characteristics(category, comment, root)
       IN  /\ tokens' = toks
           /\ descriptive_name' = generate_descriptive_name(category, toks)
    /\ apc' = "named"
    /\ UNCHANGED <<content, category, comment, root>>
    /\ UNCHANGED rvars

NextAnalyzer == Analyze \/ GenerateName

SpecAnalyzer == InitAnalyzer /\ [][NextAnalyzer]_vars

(***************************************************************************)
(* Properties of the analyzer (checked under SpecAnalyzer)                 *)
(***************************************************************************)
Stem(name) == SubSeq(name, 1, Len(name) - 4)

\* name matches ^[a-z0-9]+(-[a-z0-9]+)*\.svg$
MatchesNamePattern(name) ==
    /\ Len(name) > 4
    /\ SubSeq(name, Len(name) - 3, Len(name)) = ".svg"
    /\ LET stem == Stem(name)
       IN  /\ \A i \in 1..Len(stem) : Char(stem, i) \in KebabChars
           /\ Char(stem, 1) # "-"
           /\ Char(stem, Len(stem)) # "-"
           /\ ~Contains(stem, "--")

\* The number of hyphen-separated segments of the name without its extension
Segments(name) ==
    LET stem == Stem(name)
    IN  1 + Cardinality({i \in 1..Len(stem) : Char(stem, i) = "-"})

\* C3: every generated name matches ^[a-z0-9]+(-[a-z0-9]+)*\.svg$ (it is never
\* just ".svg") and has at most 4 hyphen-separated segments.
C3_NameValid ==
    apc = "named" =>
        MatchesNamePattern(descriptive_name) /\ Segments(descriptive_name) <= 4

\* The positions of toks that hold the first occurrence of their token
FirstOccurrences(toks) == {i \in 1..Len(toks) : \A j \in 1..(i - 1) : toks[j] # toks[i]}

\* The first three (or fewer) distinct tokens of toks, in first-occurrence order
FirstThreeDistinct(toks) ==
    LET first == FirstOccurrences(toks)
        n == IF Cardinality(first) > 3 THEN 3 ELSE Cardinality(first)
    IN  [k \in 1..n |->
            toks[CHOOSE i \in first : Cardinality({j \in first : j < i}) = k - 1]]

\* The base word as it appears in a name
SanitizedBase(cat) ==
    Strip(CollapseHyphens(ReplaceNonKebab(Lower(Base(cat)), 1), 1), "-")

NoDuplicates(s) == \A i, j \in 1..Len(s) : i # j => s[i] # s[j]

\* C4: the descriptors of the generated name are exactly the first three (or fewer)
\* distinct tokens of the analysis in first-occurrence order, none repeated, and
\* deduplicating a deduplicated list changes nothing.
C4_DescriptorsAreFirstDistinct ==
    apc = "named" =>
        LET d == FirstThreeDistinct(tokens)
            sb == SanitizedBase(category)
        IN  /\ NoDuplicates(d)
            /\ descriptive_name
                  = Join(d \o (IF sb = "" THEN <<>> ELSE <<sb>>), "-") \o ".svg"
            /\ UniqueTokens(UniqueTokens(tokens)) = UniqueTokens(tokens)

\* C4's case: a token list with a repeated token and more than three distinct tokens
C4_Witness ==
    /\ apc = "named"
    /\ Cardinality(FirstOccurrences(tokens)) < Len(tokens)
    /\ Cardinality(FirstOccurrences(tokens)) > 3

IsPrefix(p, s) == Len(p) <= Len(s) /\ SubSeq(s, 1, Len(p)) = p

\* The branch the element counts select for hearts, stars and sparkles
SelectedBranch(cat, circles, polygons) ==
    IF cat \notin {"hearts", "stars", "sparkles"} THEN <<>>
    ELSE IF circles > 3 /\ polygons >= 1 THEN <<"cluster">>
    ELSE IF circles >= 3 THEN <<"triple">>
    ELSE IF circles = 2 THEN <<"double">>
    ELSE <<>>

\* C9 as stated: the selected branch appends its token unless that same token is
\* already present; a different multiplicity token does not suppress it; other
\* categories get nothing from this rule.
C9_Original ==
    apc \in {"analyzed", "named"} =>
        LET before == CommentTokens(comment)
            circles == count_elements(root, "circle")
            polygons == count_elements(root, "polygon")
            sel == SelectedBranch(category, circles, polygons)
            added == IF sel # <<>> /\ ~InSeq(sel[1], before) THEN sel ELSE <<>>
        IN  /\ CategoryCountTokens(category, before, circles, polygons) = added
            /\ IsPrefix(before \o added, tokens)

\* C9 amended: as above, except that the 'triple' branch is also skipped when
\* 'cluster' is already present.
C9_CategoryCountRule ==
    apc \in {"analyzed", "named"} =>
        LET before == CommentTokens(comment)
            circles == count_elements(root, "circle")
            polygons == count_elements(root, "polygon")
            sel == SelectedBranch(category, circles, polygons)
            added == IF /\ sel # <<>>
                        /\ ~InSeq(sel[1], before)
                        /\ ~(sel = <<"triple">> /\ InSeq("cluster", before))
                     THEN sel ELSE <<>>
        IN  /\ CategoryCountTokens(category, before, circles, polygons) = added
            /\ IsPrefix(before \o added, tokens)

\* C9's case: the counts select 'triple' while the comment already gave 'double'
C9_Witness ==
    /\ apc = "analyzed"
    /\ category \in CountCategories
    /\ count_elements(root, "circle") >= 3
    /\ IsPrefix(<<"double">>, tokens)
    /\ InSeq("triple", tokens)

(***************************************************************************)
(* SVGRenamer                                                              *)
(***************************************************************************)
brands == <<"hmh", "ss">>

\* The characters of file and directory names, in code point order
CharOrder == "-.0123456789ABCDEFGHIJKLMNOPQRSTUVWXYZ_abcdefghijklmnopqrstuvwxyz"

Ord ==
    [c \in {Char(CharOrder, i) : i \in 1..Len(CharOrder)} |->
        CHOOSE i \in 1..Len(CharOrder) : Char(CharOrder, i) = c]

\* a < b for two names (path components compare as strings)
RECURSIVE StrLessFrom(_, _, _)
StrLessFrom(a, b, i) ==
    IF i > Len(a) THEN i <= Len(b)
    ELSE IF i > Len(b) THEN FALSE
    ELSE IF Char(a, i) = Char(b, i) THEN StrLessFrom(a, b, i + 1)
    ELSE Ord[Char(a, i)] < Ord[Char(b, i)]

StrLess(a, b) == StrLessFrom(a, b, 1)

RECURSIVE Insert(_, _)
Insert(x, s) ==
    IF s = <<>> THEN <<x>>
    ELSE IF StrLess(x, s[1]) THEN <<x>> \o s
    ELSE <<s[1]>> \o Insert(x, Tail(s))

RECURSIVE SortNames(_)
SortNames(s) ==
    IF s = <<>> THEN <<>> ELSE Insert(s[Len(s)], SortNames(SubSeq(s, 1, Len(s) - 1)))

Unsorted(s) == s

\* sorted(...) of lines 293 and 298
sorted(s) == SortNames(s)

RECURSIVE Flatten(_)
Flatten(ss) == IF ss = <<>> THEN <<>> ELSE ss[1] \o Flatten(Tail(ss))

EndsWith(s, suffix) ==
    Len(s) >= Len(suffix) /\ SubSeq(s, Len(s) - Len(suffix) + 1, Len(s)) = suffix

\* brand_path.iterdir(): the category directories of a brand, in the order the
\* operating system lists them (listing enumerates the files of the catalog)
IterDir(listing, brand) ==
    LET sel == SelectSeq(listing, LAMBDA p : p[1] = brand)
    IN  UniqueFrom([i \in 1..Len(sel) |-> sel[i][2]], 1, <<>>)

\* category_path.glob('*.svg'), in the order the operating system lists them
Glob(listing, brand, cat) ==
    LET sel == SelectSeq(listing,
                   LAMBDA p : p[1] = brand /\ p[2] = cat /\ EndsWith(p[3], ".svg"))
    IN  [i \in 1..Len(sel) |-> sel[i][3]]

\* Lines 297-299
CategorySvgs(listing, brand, cat) ==
    LET names == sorted(Glob(listing, brand, cat))
    IN  [i \in 1..Len(names) |-> [brand |-> brand, category |-> cat, name |-> names[i]]]

\* Lines 289-299
BrandSvgs(listing, brand) ==
    LET cats == sorted(IterDir(listing, brand))
    IN  Flatten([k \in 1..Len(cats) |-> CategorySvgs(listing, brand, cats[k])])

\* find_all_svgs
find_all_svgs(listing) ==
    Flatten([b \in 1..Len(brands) |-> BrandSvgs(listing, brands[b])])

\* The orders in which the operating system may list the files of S
Listings(S) ==
    {s \in [1..Cardinality(S) -> S] : \A i, j \in 1..Cardinality(S) : i # j => s[i] # s[j]}

\* Lines 402-404; argv[1] is the script, argv[2] the first argument
DryRunOfAnyArgument(av) == ~(\E i \in 2..Len(av) : av[i] = "--execute")

DryRunOf(av) == ~(Len(av) > 1 /\ av[2] = "--execute")

\* Lines 312-313: str(svg_path.parent / new_name)
CollisionKey(brand, cat, name) == brand \o "/" \o cat \o "/" \o name

\* self.collision_counter[key] of a defaultdict(int)
Count(counter, key) == IF key \in DOMAIN counter THEN counter[key] ELSE 0

\* Lines 315-320: the name after collision handling, seen being the counter's value
ResolveCollisionCountFromZero(new_name, seen) ==
    IF seen > 0
    THEN SubSeq(new_name, 1, Len(new_name) - 4) \o "-v" \o Str(seen) \o ".svg"
    ELSE new_name

ResolveCollision(new_name, seen) ==
    IF seen > 0
    THEN SubSeq(new_name, 1, Len(new_name) - 4) \o "-v" \o Str(seen + 1) \o ".svg"
    ELSE new_name

BumpForgotten(counter, key) == counter

\* Line 322
Bump(counter, key) ==
    [k \in DOMAIN counter \cup {key} |-> Count(counter, k) + (IF k = key THEN 1 ELSE 0)]

\* os.rename(old, new) when it succeeds: new is replaced if it exists
Rename(f, old, new) ==
    [p \in (DOMAIN f \ {old}) \cup {new} |-> IF p = new THEN f[old] ELSE f[p]]

\* Lines 372 and 377: may the record's rename be attempted
SourceMissing(f, old) == old \notin DOMAIN f

TargetExistsEvenIfSelf(f, old, new) == new \in DOMAIN f

TargetExists(f, old, new) == new \in DOMAIN f /\ old # new

\* The characters of lines 385 and 349 that are not ASCII
CheckMark == "U+2713"
Arrow == "U+2192"

NonAscii == {CheckMark, Arrow}

\* print(text) does not raise UnicodeEncodeError, char being text's least encodable
\* character
CanPrint(enc, char) == enc = "utf-8" \/ char \notin NonAscii

\* The loop of generate_rename_mapping has run out
MappingCompleteAfterFirst == idx > 1 \/ idx > Len(svgs)

MappingComplete == idx > Len(svgs)

\* What a finished run leaves behind
Summary ==
    [fs0 |-> fs0, fs_end |-> fs, dry_run |-> dry_run, map |-> rename_map,
     renamed |-> renamed_count, skipped |-> skipped_count, outcomes |-> outcomes,
     unlinks |-> unlinks]

(***************************************************************************)
(* A catalog, then runs of main()                                          *)
(***************************************************************************)
SampleArgv ==
    {<<"rename_shapes_descriptive.py">>,
     <<"rename_shapes_descriptive.py", "--execute">>,
     <<"rename_shapes_descriptive.py", "--verbose", "--execute">>}

CandidatePaths ==
    {<<"hmh", "waves", "a.svg">>, <<"hmh", "waves", "wave.svg">>,
     <<"hmh", "waves", "wave-v2.svg">>, <<"hmh", "v2", "a.svg">>,
     <<"ss", "waves", "a.svg">>}

\* A plain drawing of one path, and a file with a comment that ET.parse rejects
PlainDrawing ==
    [comment |-> <<>>, wellformed |-> TRUE, elements |-> MakeDoc(0, 0, "path", 1, 0)]

BrokenBold == [comment |-> <<" Bold ">>, wellformed |-> FALSE, elements |-> <<>>]

\* Up to MaxFiles files, each a plain drawing, except that hmh/waves/a.svg may be
\* the broken file
Catalogs ==
    {f \in UNION {[P -> {PlainDrawing, BrokenBold}] :
                     P \in {Q \in SUBSET CandidatePaths : Cardinality(Q) <= MaxFiles}} :
        \A p \in DOMAIN f : f[p] = BrokenBold => p = <<"hmh", "waves", "a.svg">>}

NoAnalyzer ==
    /\ content = <<>>
    /\ category = ""
    /\ comment = <<>>
    /\ root = <<>>
    /\ tokens = <<>>
    /\ descriptive_name = ""
    /\ apc = "none"

Init ==
    /\ NoAnalyzer
    /\ fs \in Catalogs
    /\ pc = "idle"
    /\ run = 0
    /\ argv = <<>>
    /\ dry_run = TRUE
    /\ encoding = "utf-8"
    /\ svgs = <<>>
    /\ idx = 0
    /\ rename_map = <<>>
    /\ collision_counter = <<>>
    /\ renamed_count = 0
    /\ skipped_count = 0
    /\ fs0 = fs
    /\ outcomes = <<>>
    /\ unlinks = 0
    /\ faults = 0
    /\ prev = <<>>

\* main, lines 399-406, and line 305: a fresh SVGRenamer walks the catalog
Main ==
    /\ pc \in {"idle", "done", "crashed"}
    /\ run < MaxRuns
    /\ \E av \in SampleArgv, listing \in Listings(DOMAIN fs) :
          /\ argv' = av
          /\ dry_run' = DryRunOf(av)
          /\ svgs' = find_all_svgs(listing)
    /\ \E enc \in {"utf-8"} \cup {e \in {"ascii"} : faults < MaxFaults} :
          /\ encoding' = enc
          /\ faults' = faults + (IF enc = "ascii" THEN 1 ELSE 0)
    /\ run' = run + 1
    /\ rename_map' = <<>>
    /\ collision_counter' = <<>>
    /\ idx' = 1
    /\ renamed_count' = 0
    /\ skipped_count' = 0
    /\ fs0' = fs
    /\ outcomes' = <<>>
    /\ unlinks' = 0
    /\ pc' = "mapping"
    /\ prev' = IF pc = "done" THEN <<Summary>> ELSE <<>>
    /\ UNCHANGED fs
    /\ UNCHANGED avars

\* One iteration of the loop of generate_rename_mapping, lines 307-325
MapNext ==
    /\ pc = "mapping"
    /\ idx <= Len(svgs)
    /\ LET svg == svgs[idx]
           c == fs[<<svg.brand, svg.category, svg.name>>]
           toks == analyze_shape_characteristics(svg.category, ParseComment(c), ParseRoot(c))
           synth == generate_descriptive_name(svg.category, toks)
           key == CollisionKey(svg.brand, svg.category, synth)
           new_name == ResolveCollision(synth, Count(collision_counter, key))
       IN  /\ content' = c
           /\ category' = svg.category
           /\ comment' = ParseComment(c)
           /\ root' = ParseRoot(c)
           /\ tokens' = toks
           /\ descriptive_name' = synth
           /\ apc' = "named"
           /\ collision_counter' = Bump(collision_counter, key)
           /\ rename_map' = Append(rename_map,
                                   [brand |-> svg.brand, category |-> svg.category,
                                    old_name |-> svg.name, new_name |-> new_name])
    /\ idx' = idx + 1
    /\ UNCHANGED <<fs, pc, run, argv, dry_run, encoding, svgs, renamed_count, skipped_count,
                   fs0, outcomes, unlinks, faults, prev>>

\* main, line 408, and the head of execute_rename, lines 358-366.  A dry run prints
\* the mapping and returns; on a console that cannot encode the arrow of line 349,
\* print_mapping raises at its first record and the run ends with a traceback
ExecuteRename ==
    /\ pc = "mapping"
    /\ MappingComplete
    /\ IF dry_run
       THEN /\ pc' = IF rename_map = <<>> \/ CanPrint(encoding, Arrow)
                     THEN "done" ELSE "crashed"
            /\ UNCHANGED <<idx, renamed_count, skipped_count>>
       ELSE /\ pc' = "apply"
            /\ idx' = 1
            /\ renamed_count' = 0
            /\ skipped_count' = 0
    /\ UNCHANGED <<fs, run, argv, dry_run, encoding, svgs, rename_map, collision_counter,
                   fs0, outcomes, unlinks, faults, prev>>
    /\ UNCHANGED avars

\* One iteration of the loop of execute_rename, lines 368-388.  os.rename may fail;
\* the print of line 385 runs inside the try block, after the rename and after
\* renamed_count += 1, and its UnicodeEncodeError is handled by line 386 as well
ApplyNext ==
    /\ pc = "apply"
    /\ idx <= Len(rename_map)
    /\ LET rec == rename_map[idx]
           old_path == <<rec.brand, rec.category, rec.old_name>>
           new_path == <<rec.brand, rec.category, rec.new_name>>
       IN  \E ok \in {TRUE} \cup {b \in {FALSE} : faults < MaxFaults} :
              LET outcome == IF SourceMissing(fs, old_path) THEN "SKIP file not found"
                             ELSE IF TargetExists(fs, old_path, new_path)
                                  THEN "SKIP target already exists"
                             ELSE IF ~ok THEN "ERROR"
                             ELSE IF CanPrint(encoding, CheckMark) THEN "renamed"
                             ELSE "renamed, then ERROR"
                  done == outcome \in {"renamed", "renamed, then ERROR"}
              IN  /\ fs' = IF done THEN Rename(fs, old_path, new_path) ELSE fs
                  /\ renamed_count' = renamed_count + (IF done THEN 1 ELSE 0)
                  /\ skipped_count' = skipped_count + (IF outcome = "renamed" THEN 0 ELSE 1)
                  /\ outcomes' = Append(outcomes, outcome)
                  /\ faults' = faults + (IF outcome = "ERROR" THEN 1 ELSE 0)
    /\ idx' = idx + 1
    /\ UNCHANGED <<pc, run, argv, dry_run, encoding, svgs, rename_map, collision_counter, fs0,
                   unlinks, prev>>
    /\ UNCHANGED avars

\* The summary of execute_rename, lines 390-394, and the end of main
Finish ==
    /\ pc = "apply"
    /\ idx > Len(rename_map)
    /\ pc' = "done"
    /\ UNCHANGED <<fs, run, argv, dry_run, encoding, svgs, idx, rename_map, collision_counter,
                   renamed_count, skipped_count, fs0, outcomes, unlinks, faults, prev>>
    /\ UNCHANGED avars

\* Another process removes a file of the catalog after it was analyzed and before
\* execute_rename reaches it
Unlink ==
    /\ pc = "apply"
    /\ idx = 1
    /\ faults < MaxFaults
    /\ \E p \in DOMAIN fs : fs' = [q \in DOMAIN fs \ {p} |-> fs[q]]
    /\ unlinks' = unlinks + 1
    /\ faults' = faults + 1
    /\ UNCHANGED <<pc, run, argv, dry_run, encoding, svgs, idx, rename_map, collision_counter,
                   renamed_count, skipped_count, fs0, outcomes, prev>>
    /\ UNCHANGED avars

Next == Main \/ MapNext \/ ExecuteRename \/ ApplyNext \/ Finish \/ Unlink

Spec == Init /\ [][Next]_vars

(***************************************************************************)
(* Properties of the renamer (checked under Spec)                          *)
(***************************************************************************)
SameDir(r1, r2) == r1.brand = r2.brand /\ r1.category = r2.category

PathOf(svg) == <<svg.brand, svg.category, svg.name>>

OldPath(rec) == <<rec.brand, rec.category, rec.old_name>>

NewPath(rec) == <<rec.brand, rec.category, rec.new_name>>

\* The name the analyzer synthesizes for the k-th discovered asset
Synth(k) ==
    LET c == fs0[PathOf(svgs[k])]
    IN  generate_descriptive_name(svgs[k].category,
            analyze_shape_characteristics(svgs[k].category, ParseComment(c), ParseRoot(c)))

\* C1: any two distinct records of rename_map with the same brand and category
\* have different new names.
C1_UniqueNames ==
    \A i, j \in 1..Len(rename_map) :
        (i # j /\ SameDir(rename_map[i], rename_map[j]))
            => rename_map[i].new_name # rename_map[j].new_name

\* C1's case: a directory holding a version-suffixed name next to a different name
\* that was synthesized without a suffix
C1_Witness ==
    /\ pc = "done"
    /\ \E i, j \in 1..Len(rename_map) :
          /\ SameDir(rename_map[i], rename_map[j])
          /\ rename_map[i].new_name # Synth(i)
          /\ rename_map[j].new_name = Synth(j)
          /\ Synth(i) # Synth(j)

\* How many of the first k assets share the k-th asset's directory and synthesized
\* name, synth[j] being the name synthesized for the j-th asset
OccurrenceIn(synth, k) ==
    Cardinality({j \in 1..k : SameDir(svgs[j], svgs[k]) /\ synth[j] = synth[k]})

Occurrence(k) == OccurrenceIn([j \in 1..k |-> Synth(j)], k)

\* C2: throughout generate_rename_mapping and when it returns, the first asset (in
\* walk order) with a given directory and synthesized name keeps the name, the N-th
\* (N >= 2) gets '-vN' before '.svg'; the same name in another directory does not
\* count.
C2_SuffixByOccurrence ==
    pc = "mapping" =>
        LET synth == [k \in 1..Len(rename_map) |-> Synth(k)]
        IN  \A k \in 1..Len(rename_map) :
                /\ OldPath(rename_map[k]) = PathOf(svgs[k])
                /\ rename_map[k].new_name
                      = IF OccurrenceIn(synth, k) = 1 THEN synth[k]
                        ELSE Stem(synth[k]) \o "-v" \o Str(OccurrenceIn(synth, k))
                             \o ".svg"

\* C2's case: a second occurrence in one directory, then the same synthesized name
\* first seen in another directory
C2_Witness ==
    /\ pc = "mapping"
    /\ MappingComplete
    /\ \E k, m \in 1..Len(rename_map) :
          /\ k < m
          /\ Occurrence(k) = 2
          /\ ~SameDir(svgs[k], svgs[m])
          /\ Synth(m) = Synth(k)
          /\ rename_map[m].new_name = Synth(m)

\* C5: in commit mode every record gets exactly one outcome and the loop goes on:
\* a rename happens only if the source exists and the target does not (or is the
\* source); a missing source, an existing other target or a failing os.rename is a
\* skip; no file other than the source is replaced or lost; at the end
\* renamed_count + skipped_count is the number of records.
C5_EveryRecordOneOutcome ==
    [][/\ (pc = "apply" /\ idx' = idx + 1) =>
            LET rec == rename_map[idx]
                old == OldPath(rec)
                new == NewPath(rec)
                performed == renamed_count' = renamed_count + 1
                                /\ skipped_count' = skipped_count
                skipped == renamed_count' = renamed_count
                              /\ skipped_count' = skipped_count + 1
            IN  /\ performed \/ skipped
                /\ performed => /\ old \in DOMAIN fs
                                /\ new \notin DOMAIN fs \/ new = old
                                /\ new \in DOMAIN fs'
                                /\ fs'[new] = fs[old]
                /\ (old \notin DOMAIN fs \/ (new \in DOMAIN fs /\ new # old)) => skipped
                /\ outcomes'[Len(outcomes')] = "ERROR" => skipped
                /\ skipped => fs' = fs
                /\ \A p \in DOMAIN fs \ {old} : p \in DOMAIN fs' /\ fs'[p] = fs[p]
                /\ pc' = "apply"
                /\ rename_map' = rename_map
       /\ pc' = "apply" => renamed_count' + skipped_count' = idx' - 1
       /\ (pc = "apply" /\ pc' = "done") =>
            /\ idx > Len(rename_map)
            /\ renamed_count + skipped_count = Len(rename_map)
      ]_vars

\* C5's case: a finished commit run that renamed one file, skipped one whose source
\* was gone and skipped one whose target existed
C5_Witness ==
    /\ pc = "done"
    /\ ~dry_run
    /\ InSeq("renamed", outcomes)
    /\ InSeq("SKIP file not found", outcomes)
    /\ InSeq("SKIP target already exists", outcomes)
    /\ renamed_count + skipped_count = Len(rename_map)

\* C6: unless the first argument is exactly '--execute' the run is a dry run, and
\* a dry run changes no file and attempts no rename.
C6_PreviewIsDefault ==
    pc \in {"mapping", "apply", "done", "crashed"} =>
        /\ dry_run <=> ~(Len(argv) >= 2 /\ argv[2] = "--execute")
        /\ dry_run => /\ fs = fs0
                      /\ pc # "apply"
                      /\ outcomes = <<>>
                      /\ renamed_count = 0

\* C6's case: a finished dry run, started with '--execute' as second argument, whose
\* mapping would rename a file
C6_Witness ==
    /\ pc = "done"
    /\ dry_run
    /\ Len(argv) = 3
    /\ argv[3] = "--execute"
    /\ \E k \in 1..Len(rename_map) : rename_map[k].old_name # rename_map[k].new_name

\* C7: when a rename is executed rename_map holds one record per discovered asset,
\* and no asset is analyzed once a rename was tried.
C7_BatchThenApply ==
    [][/\ (pc = "apply" /\ idx' = idx + 1) =>
            /\ Len(rename_map) = Cardinality(DOMAIN fs0)
            /\ {OldPath(rename_map[k]) : k \in 1..Len(rename_map)} = DOMAIN fs0
            /\ rename_map' = rename_map
            /\ collision_counter' = collision_counter
       /\ (fs' # fs /\ unlinks' = unlinks) => (pc = "apply" /\ idx' = idx + 1)
       /\ rename_map' # rename_map => (outcomes' = <<>> /\ fs' = fs0')
      ]_vars

\* C7's case: a rename was executed for a catalog of several assets
C7_Witness ==
    /\ pc = "apply"
    /\ renamed_count >= 1
    /\ fs # fs0
    /\ Len(rename_map) >= 2

\* C8: two runs that start from the same catalog produce the same mapping: the
\* same records with the same new names in the same order.
C8_Deterministic ==
    (pc \in {"apply", "done"} /\ prev # <<>> /\ prev[1].fs0 = fs0)
        => prev[1].map = rename_map

\* C8's case: two finished dry runs of a catalog with a collision
C8_Witness ==
    /\ pc = "done"
    /\ prev # <<>>
    /\ prev[1].dry_run
    /\ dry_run
    /\ Len(rename_map) >= 3
    /\ \E k \in 1..Len(rename_map) : rename_map[k].new_name # Synth(k)

\* C10: after a commit run that skipped no record, a second commit run (no other
\* process touching the catalog) changes no file: each of its records renames a
\* file onto its own name or is skipped because the target exists.
C10_RerunStable ==
    (/\ pc \in {"apply", "done"}
     /\ ~dry_run
     /\ unlinks = 0
     /\ prev # <<>>
     /\ ~prev[1].dry_run
     /\ prev[1].skipped = 0
     /\ prev[1].unlinks = 0)
        => /\ fs = fs0
           /\ \A k \in 1..Len(outcomes) :
                 \/ /\ rename_map[k].old_name = rename_map[k].new_name
                    /\ outcomes[k] \in {"renamed", "ERROR", "renamed, then ERROR"}
                 \/ /\ rename_map[k].old_name # rename_map[k].new_name
                    /\ outcomes[k] = "SKIP target already exists"

\* C10's case: the second run finished, and it gave a version suffix to another
\* file than the one that carries it
C10_Witness ==
    /\ pc = "done"
    /\ ~dry_run
    /\ unlinks = 0
    /\ prev # <<>>
    /\ ~prev[1].dry_run
    /\ prev[1].skipped = 0
    /\ prev[1].unlinks = 0
    /\ Len(prev[1].map) >= 2
    /\ \E k \in 1..Len(rename_map) :
          /\ rename_map[k].new_name # Synth(k)
          /\ rename_map[k].old_name # rename_map[k].new_name

====
